---- MODULE Spec2Model ----
(***************************************************************************)
(* Model of src/src/estimate_watermark.py: the gradient-domain watermark   *)
(* pipeline (median gradient estimation, normalisation, the two Poisson    *)
(* solvers, watermark cropping and watermark localisation).                *)
(*                                                                         *)
(* Arrays are functions over 0-based index ranges, as in numpy: an image   *)
(* of shape (H, W, C) is a function [0..H-1 -> [0..W-1 -> [0..C-1 -> v]]]. *)
(* A two-dimensional array of shape (H, W) is carried as (H, W, 1): numpy  *)
(* broadcasts the scalar reductions of the 2-D case exactly as it          *)
(* broadcasts the one-channel reductions.                                  *)
(***************************************************************************)
EXTENDS Integers, Sequences, FiniteSets, TLC

(***************************************************************************)
(* np.float32 arithmetic.  A value is a record [k, s, m, e]:               *)
(*   k = "num": the number s * m * 2^e, m = 0 (zero) or 2^23 <= m < 2^24;  *)
(*   k = "inf": s * infinity;   k = "nan": not a number.                   *)
(* Every operation rounds to nearest, ties to even, as IEEE 754 binary32   *)
(* does.  Exponent overflow and subnormals are outside the value ranges    *)
(* the model draws its inputs from.                                        *)
(***************************************************************************)
MantBits == 24

Pow2(n) == 2 ^ n

\* number of significant bits of M, 0 < M < 2^30
BitLen(M) == CHOOSE L \in 1..30 : M < Pow2(L) /\ (L = 1 \/ M >= Pow2(L - 1))

Zero == [k |-> "num", s |-> 1, m |-> 0, e |-> 0]
Inf(sg) == [k |-> "inf", s |-> sg, m |-> 0, e |-> 0]
NaN == [k |-> "nan", s |-> 1, m |-> 0, e |-> 0]

IsNaN(a) == a.k = "nan"
IsZero(a) == a.k = "num" /\ a.m = 0

\* The float nearest to sg * (M + t) * 2^E, 0 <= t < 1, t > 0 iff sticky.
\* A sticky remainder is only passed with BitLen(M) > MantBits.
RoundF(sg, M, E, sticky) ==
    IF M = 0 THEN Zero
    ELSE LET L == BitLen(M) IN
         IF L <= MantBits
         THEN [k |-> "num", s |-> sg, m |-> M * Pow2(MantBits - L),
               e |-> E - (MantBits - L)]
         ELSE LET sh == L - MantBits
                  q == M \div Pow2(sh)
                  r == M % Pow2(sh)
                  half == Pow2(sh - 1)
                  up == r > half \/ (r = half /\ (sticky \/ q % 2 = 1))
                  q1 == IF up THEN q + 1 ELSE q
              IN IF q1 = Pow2(MantBits)
                 THEN [k |-> "num", s |-> sg, m |-> Pow2(MantBits - 1),
                       e |-> E + sh + 1]
                 ELSE [k |-> "num", s |-> sg, m |-> q1, e |-> E + sh]

\* int -> float32 (astype(np.float32) of an integer-valued sample)
FromInt(n) == IF n < 0 THEN RoundF(-1, -n, 0, FALSE) ELSE RoundF(1, n, 0, FALSE)

Neg(a) == IF a.k = "nan" \/ IsZero(a) THEN a ELSE [a EXCEPT !.s = -a.s]

\* a * b: the 48-bit product of the mantissas is formed from 12-bit halves.
Mul(a, b) ==
    IF a.k = "nan" \/ b.k = "nan" THEN NaN
    ELSE IF a.k = "inf" \/ b.k = "inf"
         THEN IF IsZero(a) \/ IsZero(b) THEN NaN ELSE Inf(a.s * b.s)
    ELSE IF a.m = 0 \/ b.m = 0 THEN Zero
    ELSE LET a1 == a.m \div 4096
             a0 == a.m % 4096
             b1 == b.m \div 4096
             b0 == b.m % 4096
             mid == a1 * b0 + a0 * b1
             low == (mid % 4096) * 4096 + a0 * b0
             Lo == low % Pow2(24)
             Hi == a1 * b1 + mid \div 4096 + low \div Pow2(24)
         IN RoundF(a.s * b.s, Hi * 64 + Lo \div Pow2(18), a.e + b.e + 18,
                   Lo % Pow2(18) # 0)

\* <<quotient, remainder>> after bringing down `bits` more quotient bits
DivStep(qr, d, bits) ==
    << qr[1] * Pow2(bits) + (qr[2] * Pow2(bits)) \div d, (qr[2] * Pow2(bits)) % d >>

\* a / b (np.true_divide): 26 quotient bits below the leading one, then round.
Div(a, b) ==
    IF a.k = "nan" \/ b.k = "nan" THEN NaN
    ELSE IF a.k = "inf" THEN (IF b.k = "inf" THEN NaN ELSE Inf(a.s * b.s))
    ELSE IF b.k = "inf" THEN Zero
    ELSE IF b.m = 0 THEN (IF a.m = 0 THEN NaN ELSE Inf(a.s * b.s))
    ELSE IF a.m = 0 THEN Zero
    ELSE LET s0 == << a.m \div b.m, a.m % b.m >>
             s1 == DivStep(s0, b.m, 6)
             s2 == DivStep(s1, b.m, 6)
             s3 == DivStep(s2, b.m, 6)
             s4 == DivStep(s3, b.m, 6)
             s5 == DivStep(s4, b.m, 2)
         IN RoundF(a.s * b.s, s5[1], a.e - b.e - 26, s5[2] # 0)

\* a + b for finite nonzero a, b with a.e >= b.e: three guard bits and a sticky bit
AddOrdered(a, b) ==
    LET d == a.e - b.e
        MA == a.m * 8
        MB == IF d > 27 THEN 0 ELSE (b.m * 8) \div Pow2(d)
        st == IF d > 27 THEN TRUE ELSE (b.m * 8) % Pow2(d) # 0
    IN IF a.s = b.s THEN RoundF(a.s, MA + MB, a.e - 3, st)
       ELSE LET diff == MA - MB - (IF st THEN 1 ELSE 0)
            IN IF diff >= 0 THEN RoundF(a.s, diff, a.e - 3, st)
               ELSE RoundF(b.s, -diff, a.e - 3, st)

Add(a, b) ==
    IF a.k = "nan" \/ b.k = "nan" THEN NaN
    ELSE IF a.k = "inf"
         THEN (IF b.k = "inf" /\ b.s # a.s THEN NaN ELSE a)
    ELSE IF b.k = "inf" THEN b
    ELSE IF a.m = 0 THEN b
    ELSE IF b.m = 0 THEN a
    ELSE IF a.e >= b.e THEN AddOrdered(a, b) ELSE AddOrdered(b, a)

Sub(a, b) == Add(a, Neg(b))

\* a < b, a >= b, a == b as numpy compares (every comparison with nan is False)
\* |a| < |b| for finite a, b: mantissas are normalized, so the exponent decides first
MagLt(a, b) ==
    IF b.m = 0 THEN FALSE
    ELSE IF a.m = 0 THEN TRUE
    ELSE a.e < b.e \/ (a.e = b.e /\ a.m < b.m)

Lt(a, b) ==
    /\ a.k # "nan" /\ b.k # "nan"
    /\ a # b
    /\ IF a.k = "inf" THEN a.s = -1
       ELSE IF b.k = "inf" THEN b.s = 1
       ELSE IF a.m # 0 /\ a.s = -1
            THEN (b.m = 0 \/ b.s = 1 \/ MagLt(b, a))
            ELSE b.m # 0 /\ b.s = 1 /\ MagLt(a, b)

Ge(a, b) == a.k # "nan" /\ b.k # "nan" /\ ~Lt(a, b)

EqF(a, b) == a.k # "nan" /\ b.k # "nan" /\ a = b

One == FromInt(1)

\* One step of the digit-by-digit square root: bring down the next two bits.
SqrtStep(st, pair) ==
    LET rem == st[2] * 4 + pair
        trial == st[1] * 4 + 1
    IN IF rem >= trial THEN << st[1] * 2 + 1, rem - trial >>
       ELSE << st[1] * 2, rem >>

\* <<root, remainder>> of N * 4^zeros, N given as `pairs` two-bit digits
\* (the remainder is never negative; testing it evaluates the step before the next)
RECURSIVE SqrtDigits(_, _, _, _)
SqrtDigits(N, pairs, zeros, st) ==
    IF pairs + zeros = 0 THEN st
    ELSE LET pair == IF pairs > 0 THEN (N \div Pow2(2 * (pairs - 1))) % 4 ELSE 0
             nxt == SqrtStep(st, pair)
         IN IF nxt[2] >= 0 /\ pairs > 0 THEN SqrtDigits(N, pairs - 1, zeros, nxt)
            ELSE SqrtDigits(N, 0, zeros - 1, nxt)

\* np.sqrt, correctly rounded
SqrtF(a) ==
    IF a.k = "nan" THEN NaN
    ELSE IF a.k = "inf" THEN (IF a.s = 1 THEN a ELSE NaN)
    ELSE IF a.m = 0 THEN Zero
    ELSE IF a.s = -1 THEN NaN
    ELSE LET odd == a.e % 2 # 0
             N == IF odd THEN 2 * a.m ELSE a.m
             ev == IF odd THEN a.e - 1 ELSE a.e
             r == SqrtDigits(N, 13, 13, << 0, 0 >>)
         IN RoundF(1, r[1], (ev \div 2) - 13, r[2] # 0)

(***************************************************************************)
(* numpy array helpers                                                     *)
(***************************************************************************)
\* the samples of channel c of an (H, W, C) array
ChannelValues(im, c) == { im[i][j][c] : i \in DOMAIN im, j \in DOMAIN im[0] }

\* np.min / np.max of a non-empty set of samples: nan propagates
MinF(S) == IF \E x \in S : IsNaN(x) THEN NaN
           ELSE CHOOSE x \in S : \A y \in S : ~Lt(y, x)

MaxF(S) == IF \E x \in S : IsNaN(x) THEN NaN
           ELSE CHOOSE x \in S : \A y \in S : ~Lt(x, y)

\* an integer-valued (H, W, C) array converted with astype(np.float32)
AsFloat32(a) == [i \in DOMAIN a |-> [j \in DOMAIN a[i] |->
                   [c \in DOMAIN a[i][j] |-> FromInt(a[i][j][c])]]]

(***************************************************************************)
(* PlotImage (Normalizer)                                                  *)
(***************************************************************************)
\* im = im - np.min(im, axis=(0, 1))
ShiftToMin(image) ==
    LET mn == [c \in DOMAIN image[0][0] |-> MinF(ChannelValues(image, c))]
    IN [i \in DOMAIN image |-> [j \in DOMAIN image[i] |-> [c \in DOMAIN image[i][j] |->
           Sub(image[i][j][c], mn[c])]]]

\* div = 1. / np.max(im, axis=(0, 1)) - np.min(im, axis=(0, 1)), per channel,
\* evaluated with Python's precedence: (1. / max) - min
PlotDiv(im, c) ==
    Sub(Div(One, MaxF(ChannelValues(im, c))), MinF(ChannelValues(im, c)))

PlotImage(image) ==
    LET im == ShiftToMin(image)
        div == [c \in DOMAIN image[0][0] |-> PlotDiv(im, c)]
    IN [i \in DOMAIN im |-> [j \in DOMAIN im[i] |-> [c \in DOMAIN im[i][j] |->
           Mul(im[i][j][c], div[c])]]]

(***************************************************************************)
(* image_threshold and crop_watermark (WatermarkCropper)                   *)
(***************************************************************************)
Min2(a, b) == IF a < b THEN a ELSE b
Max2(a, b) == IF a > b THEN a ELSE b

\* np.sqrt(np.square(gradx) + np.square(grady))
Magnitude(gradx, grady) ==
    [i \in DOMAIN gradx |-> [j \in DOMAIN gradx[i] |-> [c \in DOMAIN gradx[i][j] |->
        SqrtF(Add(Mul(gradx[i][j][c], gradx[i][j][c]),
                  Mul(grady[i][j][c], grady[i][j][c])))]]]

\* px[0] + ... + px[k], accumulated in float32 in index order
RECURSIVE SumUpTo(_, _)
SumUpTo(px, k) == IF k = 0 THEN px[0] ELSE Add(SumUpTo(px, k - 1), px[k])

\* np.average(a, axis=2): the float32 sum over the channels divided by their count;
\* the (H, W) result is carried as (H, W, 1)
AverageChannels(a) ==
    [i \in DOMAIN a |-> [j \in DOMAIN a[i] |-> [c \in {0} |->
        LET n == Cardinality(DOMAIN a[i][j])
        IN Div(SumUpTo(a[i][j], n - 1), FromInt(n))]]]

\* ThresholdSample with the first test written as "not (im < threshold)", which nan passes
ThresholdSampleNotLess(v, threshold) ==
    LET v1 == IF ~Lt(v, threshold) THEN One ELSE v
    IN IF Lt(v1, One) THEN Zero ELSE v1

\* im[im >= threshold] = 1, then im[im < 1] = 0, on one sample
ThresholdSample(v, threshold) ==
    LET v1 == IF Ge(v, threshold) THEN One ELSE v
    IN IF Lt(v1, One) THEN Zero ELSE v1

image_threshold(image, threshold) ==
    LET im == PlotImage(image)
    IN [i \in DOMAIN im |-> [j \in DOMAIN im[i] |-> [c \in DOMAIN im[i][j] |->
           ThresholdSample(im[i][j][c], threshold)]]]

\* np.where(W_gray == 1): the <<row, column>> pairs of the samples equal to 1
WhereOne(W_gray) ==
    { ij \in (DOMAIN W_gray) \X (DOMAIN W_gray[0]) : EqF(W_gray[ij[1]][ij[2]][0], One) }

SetMin(S) == CHOOSE x \in S : \A y \in S : x <= y
SetMax(S) == CHOOSE x \in S : \A y \in S : x >= y

\* one bound of a Python slice on an axis of length n: a negative bound counts
\* from the end, and every bound is clipped to 0..n
SliceBound(b, n) == IF b < 0 THEN Max2(b + n, 0) ELSE Min2(b, n)

\* a[xm:xM, ym:yM, :]
Slice2(a, xm, xM, ym, yM) ==
    LET r0 == SliceBound(xm, Cardinality(DOMAIN a))
        r1 == SliceBound(xM, Cardinality(DOMAIN a))
        c0 == SliceBound(ym, Cardinality(DOMAIN a[0]))
        c1 == SliceBound(yM, Cardinality(DOMAIN a[0]))
    IN [i \in 0..(r1 - r0 - 1) |-> [j \in 0..(c1 - c0 - 1) |-> a[r0 + i][c0 + j]]]

None == "None"
\* np.min of an empty index array raises
\* "ValueError: zero-size array to reduction operation minimum which has no identity"
EmptyMask == "ValueError: zero-size array to reduction operation minimum"

\* W_mod = PlotImage(np.sqrt(np.square(gradx) + np.square(grady)))
W_modOf(gradx, grady) == PlotImage(Magnitude(gradx, grady))

\* W_gray = image_threshold(np.average(W_mod, axis=2), threshold=threshold)
W_grayOf(W_mod, threshold) == image_threshold(AverageChannels(W_mod), threshold)

\* the rest of crop_watermark, from np.where on: what it returns, or the error it raises
BoundingBox(gradx, grady, W_gray, boundary_size) ==
    LET idx == WhereOne(W_gray)
        x == { ij[1] : ij \in idx }
        y == { ij[2] : ij \in idx }
    IN IF idx = {} THEN [raised |-> EmptyMask, ret |-> None]
       ELSE LET xm == SetMin(x) - boundary_size - 1
                xM == SetMax(x) + boundary_size + 1
                ym == SetMin(y) - boundary_size - 1
                yM == SetMax(y) + boundary_size + 1
            IN [raised |-> None,
                ret |-> << Slice2(gradx, xm, xM, ym, yM), Slice2(grady, xm, xM, ym, yM) >>]

(***************************************************************************)
(* cv2.Sobel with ksize = KERNEL_SIZE and the default border                *)
(***************************************************************************)
KERNEL_SIZE == 3

\* cv2.BORDER_REFLECT_101: the index read for position p on an axis of length n
\* (positions at most n - 1 outside the axis)
BorderReflect101(p, n) ==
    IF n = 1 THEN 0
    ELSE IF p < 0 THEN -p
    ELSE IF p >= n THEN 2 * (n - 1) - p
    ELSE p

\* img[i][j][c] with the border extrapolated
At(img, i, j, c) ==
    img[BorderReflect101(i, Cardinality(DOMAIN img))]
       [BorderReflect101(j, Cardinality(DOMAIN img[0]))][c]

Two == FromInt(2)

\* The 3x3 Sobel kernel is separable: the difference [-1, 0, 1] along the axis of
\* the derivative, the smoothing [1, 2, 1] along the other axis.
\* cv2.Sobel(img, cv2.CV_32F, 1, 0, ksize=3): derivative along the columns
SobelX(img) ==
    LET d(i, j, c) == Sub(At(img, i, j + 1, c), At(img, i, j - 1, c))
    IN [i \in DOMAIN img |-> [j \in DOMAIN img[i] |-> [c \in DOMAIN img[i][j] |->
           Add(Add(d(i - 1, j, c), d(i + 1, j, c)), Mul(Two, d(i, j, c)))]]]

\* cv2.Sobel(img, cv2.CV_32F, 0, 1, ksize=3): derivative along the rows
SobelY(img) ==
    LET d(i, j, c) == Sub(At(img, i + 1, j, c), At(img, i - 1, j, c))
    IN [i \in DOMAIN img |-> [j \in DOMAIN img[i] |-> [c \in DOMAIN img[i][j] |->
           Add(Add(d(i, j - 1, c), d(i, j + 1, c)), Mul(Two, d(i, j, c)))]]]

(***************************************************************************)
(* np.median(np.array(grads), axis=0)                                      *)
(***************************************************************************)
\* the k-th smallest (k = 1..Len(vals)) of a sequence of floats
KthSmallest(vals, k) ==
    CHOOSE v \in { vals[i] : i \in DOMAIN vals } :
        /\ Cardinality({ i \in DOMAIN vals : Lt(vals[i], v) }) < k
        /\ k <= Cardinality({ i \in DOMAIN vals : ~Lt(v, vals[i]) })

\* MedianOf taking the lower middle element of an even-length sequence
MedianLowerMiddle(vals) == KthSmallest(vals, (Len(vals) + 1) \div 2)

\* np.median of a non-empty sequence: the middle element, or the float32 mean of
\* the two middle elements when the length is even
MedianOf(vals) ==
    LET n == Len(vals)
    IN IF n % 2 = 1 THEN KthSmallest(vals, (n + 1) \div 2)
       ELSE Div(Add(KthSmallest(vals, n \div 2), KthSmallest(vals, n \div 2 + 1)), Two)

\* the per-pixel, per-channel median of a list of same-shaped arrays;
\* np.median of an empty list is the scalar nan
MedianField(grads) ==
    IF Len(grads) = 0 THEN NaN
    ELSE [i \in DOMAIN grads[1] |-> [j \in DOMAIN grads[1][i] |->
            [c \in DOMAIN grads[1][i][j] |->
                MedianOf([g \in DOMAIN grads |-> grads[g][i][j][c]])]]]

(***************************************************************************)
(* poisson_reconstruct (PoissonSolverIterative)                            *)
(***************************************************************************)
Shape(a) == << Cardinality(DOMAIN a), Cardinality(DOMAIN a[0]),
               Cardinality(DOMAIN a[0][0]) >>

AddField(a, b) == [i \in DOMAIN a |-> [j \in DOMAIN a[i] |-> [c \in DOMAIN a[i][j] |->
                     Add(a[i][j][c], b[i][j][c])]]]

\* laplacian = fxx + fyy, the Sobel derivatives of the supplied gradients
Laplacian(gradx, grady) == AddField(SobelX(gradx), SobelY(grady))

\* a boundary image: an array, or None
SomeImage(a) == [present |-> TRUE, data |-> a]
NoImage == [present |-> FALSE, data |-> << >>]

\* BoundaryAccepted with the shape compared only when there is a boundary image
BoundaryAcceptedIfPresent(boundary_image, laplacian) ==
    ~boundary_image.present \/ Shape(boundary_image.data) = Shape(laplacian)

\* assert(boundary_image is not None); assert(boundary_image.shape == laplacian.shape)
BoundaryAccepted(boundary_image, laplacian) ==
    boundary_image.present /\ Shape(boundary_image.data) = Shape(laplacian)

\* (i, j) is a position of a[1:-1, 1:-1]
IsInterior(a, i, j) ==
    /\ 1 <= i /\ i <= Cardinality(DOMAIN a) - 2
    /\ 1 <= j /\ j <= Cardinality(DOMAIN a[0]) - 2

\* the index pairs of a[1:-1, 1:-1]
Interior(a) == { ij \in (DOMAIN a) \X (DOMAIN a[0]) : IsInterior(a, ij[1], ij[2]) }

\* est[1:-1, 1:-1, :] = rnd, one float per interior sample
AssignInterior(est, rnd) ==
    [i \in DOMAIN est |-> [j \in DOMAIN est[i] |-> [c \in DOMAIN est[i][j] |->
        IF IsInterior(est, i, j) THEN rnd[<< i, j >>][c] ELSE est[i][j][c]]]]

Quarter == [k |-> "num", s |-> 1, m |-> 8388608, e |-> -25]

\* JacobiUpdate done in place, sample by sample in memory order, so that the
\* neighbours above and to the left are read after their own update
RECURSIVE GaussSeidelFrom(_, _, _, _)
GaussSeidelFrom(est, laplacian, hh, k) ==
    LET W == Cardinality(DOMAIN est[0])
        i == k \div W
        j == k % W
    IN IF k >= Cardinality(DOMAIN est) * W THEN est
       ELSE IF ~IsInterior(est, i, j)
            THEN GaussSeidelFrom(est, laplacian, hh, k + 1)
       ELSE GaussSeidelFrom(
               [est EXCEPT ![i][j] = [c \in DOMAIN est[i][j] |->
                   Mul(Quarter,
                       Sub(Add(Add(Add(est[i - 1][j][c], est[i][j - 1][c]), est[i + 1][j][c]),
                               est[i][j + 1][c]),
                           Mul(hh, laplacian[i][j][c])))]],
               laplacian, hh, k + 1)

GaussSeidelUpdate(est, laplacian, hh) == GaussSeidelFrom(est, laplacian, hh, 0)

\* est[1:-1, 1:-1, :] = 0.25*(est[0:-2, 1:-1, :] + est[1:-1, 0:-2, :] + est[2:, 1:-1, :]
\*                            + est[1:-1, 2:, :] - h*h*laplacian[1:-1, 1:-1, :])
\* numpy evaluates the whole right-hand side from est before it assigns.
JacobiUpdate(est, laplacian, hh) ==
    [i \in DOMAIN est |-> [j \in DOMAIN est[i] |-> [c \in DOMAIN est[i][j] |->
        IF IsInterior(est, i, j)
        THEN Mul(Quarter,
                 Sub(Add(Add(Add(est[i - 1][j][c], est[i][j - 1][c]), est[i + 1][j][c]),
                         est[i][j + 1][c]),
                     Mul(hh, laplacian[i][j][c])))
        ELSE est[i][j][c]]]]

\* the samples of an (H, W, C) array in memory order, as a sequence
Flatten(a) ==
    LET W == Cardinality(DOMAIN a[0])
        C == Cardinality(DOMAIN a[0][0])
    IN [k \in 1..(Cardinality(DOMAIN a) * W * C) |->
           a[(k - 1) \div (W * C)][((k - 1) \div C) % W][(k - 1) % C]]

\* acc + v[from] + ... + v[to], added one by one
RECURSIVE SumFrom(_, _, _, _)
SumFrom(acc, v, from, to) ==
    IF from > to THEN acc ELSE SumFrom(Add(acc, v[from]), v, from + 1, to)

\* the accumulator r[k] (k = 1..8) of numpy's unrolled summation: v[k] + v[k+8] + ...
\* over the leading blocks of eight
RECURSIVE Lane(_, _, _)
Lane(v, k, blocks) ==
    IF blocks = 1 THEN v[k] ELSE Add(Lane(v, k, blocks - 1), v[k + 8 * (blocks - 1)])

\* np.sum of a sequence of fewer than 128 floats (numpy's pairwise summation)
SumAll(v) ==
    LET n == Len(v)
    IN IF n < 8 THEN SumFrom(Zero, v, 1, n)
       ELSE LET b == n \div 8
                r == [k \in 1..8 |-> Lane(v, k, b)]
                res == Add(Add(Add(r[1], r[2]), Add(r[3], r[4])),
                           Add(Add(r[5], r[6]), Add(r[7], r[8])))
            IN SumFrom(res, v, 8 * b + 1, n)

\* error = np.sum(np.square(est - old_est))
SquaredChange(est, old_est) ==
    LET d == Flatten([i \in DOMAIN est |-> [j \in DOMAIN est[i] |->
                        [c \in DOMAIN est[i][j] |-> Sub(est[i][j][c], old_est[i][j][c])]]])
    IN SumAll([k \in DOMAIN d |-> Mul(d[k], d[k])])

AssertionError == "AssertionError"

\* The draws of np.random.random((m-2, n-2, p)).astype(np.float32) the model follows:
\* every interior sample 0, every one 0.5, and the two checkerboards of 0.25 and 0.5.
Half == [k |-> "num", s |-> 1, m |-> 8388608, e |-> -24]
RandomInteriors(laplacian) ==
    { [ij \in Interior(laplacian) |-> [c \in DOMAIN laplacian[0][0] |-> Zero]],
      [ij \in Interior(laplacian) |-> [c \in DOMAIN laplacian[0][0] |-> Half]],
      [ij \in Interior(laplacian) |-> [c \in DOMAIN laplacian[0][0] |->
          IF (ij[1] + ij[2]) % 2 = 0 THEN Quarter ELSE Half]],
      [ij \in Interior(laplacian) |-> [c \in DOMAIN laplacian[0][0] |->
          IF (ij[1] + ij[2]) % 2 = 0 THEN Half ELSE Quarter]] }

(***************************************************************************)
(* poisson_reconstruct2 (PoissonSolverSpectral): the right-hand side       *)
(***************************************************************************)
ZerosLike(a) == [i \in DOMAIN a |-> [j \in DOMAIN a[i] |-> [c \in DOMAIN a[i][j] |-> Zero]]]

\* gxx = gradx[:-1, 1:] - gradx[:-1, :-1]
Gxx(gradx) ==
    [a \in 0..(Cardinality(DOMAIN gradx) - 2) |->
       [b \in 0..(Cardinality(DOMAIN gradx[0]) - 2) |->
          [c \in DOMAIN gradx[0][0] |-> Sub(gradx[a][b + 1][c], gradx[a][b][c])]]]

\* gyy = grady[1:, :-1] - grady[:-1, :-1]
Gyy(grady) ==
    [a \in 0..(Cardinality(DOMAIN grady) - 2) |->
       [b \in 0..(Cardinality(DOMAIN grady[0]) - 2) |->
          [c \in DOMAIN grady[0][0] |-> Sub(grady[a + 1][b][c], grady[a][b][c])]]]

\* The source term with both differences stored at their own position:
\* f[:-1, :-1] = gxx + gyy
SourceTermForward(gradx, grady) ==
    LET H == Cardinality(DOMAIN gradx)
        W == Cardinality(DOMAIN gradx[0])
    IN [i \in DOMAIN gradx |-> [j \in DOMAIN gradx[i] |-> [c \in DOMAIN gradx[i][j] |->
          IF i <= H - 2 /\ j <= W - 2
          THEN Add(Gxx(gradx)[i][j][c], Gyy(grady)[i][j][c])
          ELSE Zero]]]

\* f = zeros; f[:-1, 1:, :] += gxx; f[1:, :-1, :] += gyy
SourceTerm(gradx, grady) ==
    LET H == Cardinality(DOMAIN gradx)
        W == Cardinality(DOMAIN gradx[0])
        gxx == Gxx(gradx)
        gyy == Gyy(grady)
    IN [i \in DOMAIN gradx |-> [j \in DOMAIN gradx[i] |-> [c \in DOMAIN gradx[i][j] |->
          LET f1 == IF i <= H - 2 /\ j >= 1 THEN Add(Zero, gxx[i][j - 1][c]) ELSE Zero
          IN IF i >= 1 /\ j <= W - 2 THEN Add(f1, gyy[i - 1][j][c]) ELSE f1]]]

MinusFour == FromInt(-4)

\* f_bp = -4*boundary[1:-1, 1:-1] + boundary[1:-1, 2:] + boundary[1:-1, 0:-2]
\*        + boundary[2:, 1:-1] + boundary[0:-2, 1:-1], indexed from 0
BoundaryLaplacian(boundary) ==
    [a \in 0..(Cardinality(DOMAIN boundary) - 3) |->
       [b \in 0..(Cardinality(DOMAIN boundary[0]) - 3) |->
          [c \in DOMAIN boundary[0][0] |->
             Add(Add(Add(Add(Mul(MinusFour, boundary[a + 1][b + 1][c]),
                             boundary[a + 1][b + 2][c]),
                         boundary[a + 1][b][c]),
                     boundary[a + 2][b + 1][c]),
                 boundary[a][b + 1][c])]]]

\* f = f[1:-1, 1:-1, :] - f_bp, indexed from 0
RightHandSide(f, f_bp) ==
    [a \in DOMAIN f_bp |-> [b \in DOMAIN f_bp[a] |-> [c \in DOMAIN f_bp[a][b] |->
        Sub(f[a + 1][b + 1][c], f_bp[a][b][c])]]]

(***************************************************************************)
(* watermark_detector (WatermarkLocator)                                   *)
(***************************************************************************)
\* the integer an integer-valued float stands for
ToInt(a) == IF a.m = 0 THEN 0
            ELSE IF a.e >= 0 THEN a.s * a.m * Pow2(a.e)
            ELSE a.s * (a.m \div Pow2(-a.e))

\* Wm = np.average(np.sqrt(np.square(gx) + np.square(gy)), axis=2), shape (kh, kw)
KernelOf(gx, gy) ==
    LET a == AverageChannels(Magnitude(gx, gy))
    IN [i \in DOMAIN a |-> [j \in DOMAIN a[i] |-> a[i][j][0]]]

\* cv2.filter2D(src, -1, kernel) at (y, x): the correlation of src with the kernel,
\* the kernel anchored at its centre (kh \div 2, kw \div 2), the border reflected.
\* src and kernel hold small integers, on which the float64 arithmetic is exact.
Correlate(src, kernel, y, x) ==
    LET kh == Cardinality(DOMAIN kernel)
        kw == Cardinality(DOMAIN kernel[0])
        H == Cardinality(DOMAIN src)
        W == Cardinality(DOMAIN src[0])
        term(k) == kernel[k \div kw][k % kw]
                     * src[BorderReflect101(y + (k \div kw) - (kh \div 2), H)]
                          [BorderReflect101(x + (k % kw) - (kw \div 2), W)]
        sum[k \in 0..(kh * kw)] == IF k = 0 THEN 0 ELSE sum[k - 1] + term(k - 1)
    IN sum[kh * kw]

\* np.unravel_index(np.argmax(a), shape): the first maximum in memory order
ArgMax(a) ==
    CHOOSE p \in (DOMAIN a) \X (DOMAIN a[0]) :
       \A q \in (DOMAIN a) \X (DOMAIN a[0]) :
          \/ a[q[1]][q[2]] < a[p[1]][p[2]]
          \/ (a[q[1]][q[2]] = a[p[1]][p[2]]
                /\ (p[1] < q[1] \/ (p[1] = q[1] /\ p[2] <= q[2])))

\* chamfer_dist = cv2.filter2D(img_edgemap.astype(float), -1, Wm)
Filter2D(img_edgemap, Wm) ==
    LET kernel == [i \in DOMAIN Wm |-> [j \in DOMAIN Wm[i] |-> ToInt(Wm[i][j])]]
    IN [y \in DOMAIN img_edgemap |-> [x \in DOMAIN img_edgemap[y] |->
           Correlate(img_edgemap, kernel, y, x)]]

\* rect = Wm.shape; index = the first maximum of chamfer_dist;
\* x, y = index[0] - rect[0] // 2, index[1] - rect[1] // 2; the coordinate and the size
Locate(chamfer_dist, Wm) ==
    LET rect == << Cardinality(DOMAIN Wm), Cardinality(DOMAIN Wm[0]) >>
        index == ArgMax(chamfer_dist)
    IN << << index[1] - rect[1] \div 2, index[2] - rect[2] \div 2 >>, rect >>

(***************************************************************************)
(* State                                                                   *)
(***************************************************************************)
VARIABLES
    n_image,    \* PlotImage: the argument
    n_result,   \* PlotImage: the returned array
    n_pc,       \* PlotImage: "call" | "returned" ("idle" in the other specifications)
    c_gradx,    \* crop_watermark: argument gradx, shape (H, W, C)
    c_grady,    \* crop_watermark: argument grady
    c_threshold,      \* crop_watermark: argument threshold
    c_boundary_size,  \* crop_watermark: argument boundary_size
    c_W_mod,    \* crop_watermark: the local W_mod
    c_W_gray,   \* crop_watermark: the local W_gray
    c_ret,      \* crop_watermark: the returned pair, None before it returns
    c_err,      \* crop_watermark: the error raised, None if none
    c_pc,       \* crop_watermark: "call" | "threshold" | "box" | "returned" | "raised"
    e_exists,   \* estimate_watermark: os.path.exists(foldername)
    e_files,    \* estimate_watermark: the files os.walk yields, in order
    e_i,        \* estimate_watermark: index in e_files of the next file to read
    e_images,   \* estimate_watermark: the list `images`
    e_gradx,    \* estimate_watermark: the list `gradx`
    e_grady,    \* estimate_watermark: the list `grady`
    e_ret,      \* estimate_watermark: the returned value
    e_err,      \* estimate_watermark: the error raised, None if none
    e_pc,       \* estimate_watermark: "call" | "walk" | "median" | "returned" | "raised"
    p_gradx,    \* poisson_reconstruct: argument gradx
    p_grady,    \* poisson_reconstruct: argument grady
    p_num_iters,       \* poisson_reconstruct: argument num_iters
    p_hh,       \* poisson_reconstruct: h*h as it multiplies the float32 laplacian
    p_boundary_image,  \* poisson_reconstruct: argument boundary_image
    p_boundary_zero,   \* poisson_reconstruct: argument boundary_zero
    p_laplacian,       \* poisson_reconstruct: the local laplacian
    p_est,      \* poisson_reconstruct: the local est
    p_loss,     \* poisson_reconstruct: the local loss
    p_i,        \* poisson_reconstruct: the number of iterations of the loop completed
    p_ret,      \* poisson_reconstruct: the tuple of the values returned, None before
    p_err,      \* poisson_reconstruct: the error raised, None if none
    p_pc,       \* poisson_reconstruct: "call" | "loop" | "returned" | "raised"
    q_gradx,    \* poisson_reconstruct2: argument gradx
    q_grady,    \* poisson_reconstruct2: argument grady
    q_boundarysrc,     \* poisson_reconstruct2: argument boundarysrc
    q_f,        \* poisson_reconstruct2: the local f handed to the sine transform
    q_ret,      \* poisson_reconstruct2: the shape of the returned field, None before
    q_pc,       \* poisson_reconstruct2: "call" | "transform" | "returned"
    d_edgemap,  \* watermark_detector: img_edgemap, the edge map of the target
    d_gx,       \* watermark_detector: argument gx
    d_gy,       \* watermark_detector: argument gy
    d_Wm,       \* watermark_detector: the local Wm
    d_chamfer_dist,    \* watermark_detector: the local chamfer_dist
    d_ret,      \* watermark_detector: the returned coordinate and size, None before
    d_pc        \* watermark_detector: "call" | "filter" | "locate" | "returned"

normVars == << n_image, n_result, n_pc >>
cropVars == << c_gradx, c_grady, c_threshold, c_boundary_size, c_W_mod, c_W_gray,
              c_ret, c_err, c_pc >>
estVars == << e_exists, e_files, e_i, e_images, e_gradx, e_grady, e_ret, e_err, e_pc >>
poisArgs == << p_gradx, p_grady, p_num_iters, p_hh, p_boundary_image, p_boundary_zero >>
poisVars == << poisArgs, p_laplacian, p_est, p_loss, p_i, p_ret, p_err, p_pc >>
pois2Vars == << q_gradx, q_grady, q_boundarysrc, q_f, q_ret, q_pc >>
detVars == << d_edgemap, d_gx, d_gy, d_Wm, d_chamfer_dist, d_ret, d_pc >>
vars == << normVars, cropVars, estVars, poisVars, pois2Vars, detVars >>
\* the variables of the other operations
notNorm == << cropVars, estVars, poisVars, pois2Vars, detVars >>
notCrop == << normVars, estVars, poisVars, pois2Vars, detVars >>
notEst == << normVars, cropVars, poisVars, pois2Vars, detVars >>
notPois == << normVars, cropVars, estVars, pois2Vars, detVars >>
notPois2 == << normVars, cropVars, estVars, poisVars, detVars >>
notDet == << normVars, cropVars, estVars, poisVars, pois2Vars >>

NormIdle == n_image = << >> /\ n_result = << >> /\ n_pc = "idle"
CropIdle ==
    /\ c_gradx = << >> /\ c_grady = << >> /\ c_threshold = Zero /\ c_boundary_size = 0
    /\ c_W_mod = << >> /\ c_W_gray = << >>
    /\ c_ret = None /\ c_err = None /\ c_pc = "idle"
Pois2Idle ==
    /\ q_gradx = << >> /\ q_grady = << >> /\ q_boundarysrc = NoImage /\ q_f = << >>
    /\ q_ret = None /\ q_pc = "idle"
DetIdle ==
    /\ d_edgemap = << >> /\ d_gx = << >> /\ d_gy = << >> /\ d_Wm = << >>
    /\ d_chamfer_dist = << >> /\ d_ret = None /\ d_pc = "idle"
PoisIdle ==
    /\ p_gradx = << >> /\ p_grady = << >> /\ p_num_iters = 0 /\ p_hh = Zero
    /\ p_boundary_image = NoImage /\ p_boundary_zero = TRUE /\ p_laplacian = << >>
    /\ p_est = << >> /\ p_loss = << >> /\ p_i = 0 /\ p_ret = None /\ p_err = None
    /\ p_pc = "idle"
EstIdle ==
    /\ e_exists = FALSE /\ e_files = << >> /\ e_i = 0 /\ e_images = << >>
    /\ e_gradx = << >> /\ e_grady = << >> /\ e_ret = None /\ e_err = None /\ e_pc = "idle"

(***************************************************************************)
(* Specification SpecNorm: one call of PlotImage on an 8-bit-valued image  *)
(***************************************************************************)
NormMaxDim == 2
NormMaxChannels == 2
PixelValues == {0, 1, 41, 255}

\* all integer arrays of shape (h, w, ch) with samples in V
IntArrays(h, w, ch, V) == [0..h-1 -> [0..w-1 -> [0..ch-1 -> V]]]

NormInit ==
    /\ \E h \in 1..NormMaxDim, w \in 1..NormMaxDim, ch \in 1..NormMaxChannels :
          /\ h * w * ch <= 2 * NormMaxDim
          /\ \E a \in IntArrays(h, w, ch, PixelValues) : n_image = AsFloat32(a)
    /\ n_result = << >>
    /\ n_pc = "call"
    /\ CropIdle /\ EstIdle /\ PoisIdle /\ Pois2Idle /\ DetIdle

Normalize ==
    /\ n_pc = "call"
    /\ n_result' = PlotImage(n_image)
    /\ n_pc' = "returned"
    /\ UNCHANGED << n_image, notNorm >>

NormNext == Normalize

SpecNorm == NormInit /\ [][NormNext]_vars

(***************************************************************************)
(* Specification SpecCrop: one call of crop_watermark on a gradient field  *)
(* that is zero outside a rectangle and uniform inside it, or zero         *)
(* everywhere.                                                             *)
(***************************************************************************)
CropMaxDim == 3
CropMaxChannels == 2
MaxBoundary == 1
\* (gradx, grady) inside the rectangle
GradPairs == { << 3, 4 >>, << -1, 1 >>, << 0, 2 >> }
\* float32(0.4), the default threshold, and 0.75
Threshold04 == [k |-> "num", s |-> 1, m |-> 13421773, e |-> -25]
Threshold075 == [k |-> "num", s |-> 1, m |-> 12582912, e |-> -24]

\* the (h, w, ch) integer array equal to v on rows r0..r1, columns c0..c1, else 0
RectField(h, w, ch, r0, r1, c0, c1, v) ==
    [i \in 0..h-1 |-> [j \in 0..w-1 |-> [c \in 0..ch-1 |->
        IF r0 <= i /\ i <= r1 /\ c0 <= j /\ j <= c1 THEN v ELSE 0]]]

CropInit ==
    /\ \E h \in 1..CropMaxDim, w \in 1..CropMaxDim, ch \in 1..CropMaxChannels :
         \/ \E r0 \in 0..h-1, c0 \in 0..w-1, g \in GradPairs :
              \E r1 \in r0..h-1, c1 \in c0..w-1 :
                /\ c_gradx = AsFloat32(RectField(h, w, ch, r0, r1, c0, c1, g[1]))
                /\ c_grady = AsFloat32(RectField(h, w, ch, r0, r1, c0, c1, g[2]))
         \/ /\ c_gradx = AsFloat32(RectField(h, w, ch, 0, 0, 0, 0, 0))
            /\ c_grady = c_gradx
    /\ c_threshold \in { Threshold04, Threshold075 }
    /\ c_boundary_size \in 0..MaxBoundary
    /\ c_W_mod = << >> /\ c_W_gray = << >>
    /\ c_ret = None /\ c_err = None /\ c_pc = "call"
    /\ NormIdle /\ EstIdle /\ PoisIdle /\ Pois2Idle /\ DetIdle

\* the normalized gradient magnitude
CropMagnitude ==
    /\ c_pc = "call"
    /\ c_W_mod' = W_modOf(c_gradx, c_grady)
    /\ c_pc' = "threshold"
    /\ UNCHANGED << c_gradx, c_grady, c_threshold, c_boundary_size, c_W_gray, c_ret, c_err,
                    notCrop >>

\* its channel average, normalized and thresholded
CropThreshold ==
    /\ c_pc = "threshold"
    /\ c_W_gray' = W_grayOf(c_W_mod, c_threshold)
    /\ c_pc' = "box"
    /\ UNCHANGED << c_gradx, c_grady, c_threshold, c_boundary_size, c_W_mod, c_ret, c_err,
                    notCrop >>

\* the bounding box of the samples equal to 1, widened, and the two slices
CropBox ==
    /\ c_pc = "box"
    /\ LET out == BoundingBox(c_gradx, c_grady, c_W_gray, c_boundary_size)
       IN /\ c_ret' = out.ret
          /\ c_err' = out.raised
          /\ c_pc' = IF out.raised = None THEN "returned" ELSE "raised"
    /\ UNCHANGED << c_gradx, c_grady, c_threshold, c_boundary_size, c_W_mod, c_W_gray,
                    notCrop >>

CropNext == CropMagnitude \/ CropThreshold \/ CropBox

SpecCrop == CropInit /\ [][CropNext]_vars

\* the <<row, column>> pairs at which the gradient field is nonzero
Support == { ij \in (DOMAIN c_gradx) \X (DOMAIN c_gradx[0]) :
               \E c \in DOMAIN c_gradx[0][0] :
                  c_gradx[ij[1]][ij[2]][c] # Zero \/ c_grady[ij[1]][ij[2]][c] # Zero }
SupportRows == { ij[1] : ij \in Support }
SupportCols == { ij[2] : ij \in Support }
\* the field is zero outside a rectangle R and uniform and nonzero inside it
UniformRect ==
    /\ Support # {}
    /\ Support = (SetMin(SupportRows)..SetMax(SupportRows))
                    \X (SetMin(SupportCols)..SetMax(SupportCols))
    /\ \A p \in Support, q \in Support :
          c_gradx[p[1]][p[2]] = c_gradx[q[1]][q[2]] /\ c_grady[p[1]][p[2]] = c_grady[q[1]][q[2]]
\* R is not the whole array, so the normalized magnitude is 1 inside R
ProperRect == UniformRect /\ Support # (DOMAIN c_gradx) \X (DOMAIN c_gradx[0])
ThresholdBelowMagnitude == Lt(Zero, c_threshold) /\ Lt(c_threshold, One)

\* a[lo_r..hi_r, lo_c..hi_c, :] re-indexed from 0
Window(a, lo_r, hi_r, lo_c, hi_c) ==
    [i \in 0..(hi_r - lo_r) |-> [j \in 0..(hi_c - lo_c) |-> a[lo_r + i][lo_c + j]]]

\* R expanded by boundary_size on each side and clipped to the array
ExpectedCrop(a) ==
    Window(a, Max2(0, SetMin(SupportRows) - c_boundary_size),
              Min2(Cardinality(DOMAIN a) - 1, SetMax(SupportRows) + c_boundary_size),
              Max2(0, SetMin(SupportCols) - c_boundary_size),
              Min2(Cardinality(DOMAIN a[0]) - 1, SetMax(SupportCols) + c_boundary_size))

\* C1: for a field zero outside a rectangle R and uniform inside it, and a threshold
\* below the normalized magnitude, crop_watermark returns gradx and grady cropped to
\* R expanded by exactly boundary_size on each side, clipped to the array bounds.
C1_CropIsExpandedRect ==
    (c_pc \in {"returned", "raised"} /\ ProperRect /\ ThresholdBelowMagnitude)
    => /\ c_pc = "returned"
       /\ c_ret = << ExpectedCrop(c_gradx), ExpectedCrop(c_grady) >>

AllZero == Support = {}

\* C2: on an all-zero gradient field with a positive threshold, crop_watermark fails
\* with the empty-mask error and returns nothing.
C2_EmptyMaskFails ==
    (c_pc \in {"returned", "raised"} /\ AllZero /\ Lt(Zero, c_threshold))
    => c_pc = "raised" /\ c_err = EmptyMask /\ c_ret = None

\* crop_watermark has run on an all-zero field with a positive threshold
C2_Witness == c_pc = "raised" /\ AllZero /\ Lt(Zero, c_threshold) /\ c_gradx # << >>

(***************************************************************************)
(* estimate_watermark (GradientStatistics)                                 *)
(***************************************************************************)
\* a file: the integer image cv2.imread decodes from it, or no image at all
ImageFile(a) == [decodes |-> TRUE, image |-> a]
Undecodable == [decodes |-> FALSE, image |-> << >>]
AttributeError == "AttributeError: 'NoneType' object has no attribute 'astype'"

\* if not os.path.exists(foldername): warn and return None
EstCheckFolder ==
    /\ e_pc = "call"
    /\ IF e_exists THEN e_pc' = "walk" /\ e_ret' = e_ret
       ELSE e_pc' = "returned" /\ e_ret' = None
    /\ UNCHANGED << e_exists, e_files, e_i, e_images, e_gradx, e_grady, e_err, notEst >>

\* One iteration of the loop over the files.  cv2.imread returns None for a file it
\* cannot decode, and .astype is applied to its result before the test for None:
\* on None the attribute lookup raises, and the test is only ever reached with an
\* image.
EstReadFile ==
    /\ e_pc = "walk"
    /\ e_i <= Len(e_files)
    /\ IF ~e_files[e_i].decodes
       THEN /\ e_pc' = "raised"
            /\ e_err' = AttributeError
            /\ UNCHANGED << e_i, e_images >>
       ELSE /\ e_images' = Append(e_images, PlotImage(AsFloat32(e_files[e_i].image)))
            /\ e_i' = e_i + 1
            /\ UNCHANGED << e_pc, e_err >>
    /\ UNCHANGED << e_exists, e_files, e_gradx, e_grady, e_ret, notEst >>

\* gradx, grady = the Sobel derivatives of every image
EstGradients ==
    /\ e_pc = "walk"
    /\ e_i > Len(e_files)
    /\ e_gradx' = [g \in DOMAIN e_images |-> SobelX(e_images[g])]
    /\ e_grady' = [g \in DOMAIN e_images |-> SobelY(e_images[g])]
    /\ e_pc' = "median"
    /\ UNCHANGED << e_exists, e_files, e_i, e_images, e_ret, e_err, notEst >>

\* Wm_x, Wm_y = the medians; return (Wm_x, Wm_y, gradx, grady)
EstMedian ==
    /\ e_pc = "median"
    /\ e_ret' = << MedianField(e_gradx), MedianField(e_grady), e_gradx, e_grady >>
    /\ e_pc' = "returned"
    /\ UNCHANGED << e_exists, e_files, e_i, e_images, e_gradx, e_grady, e_err, notEst >>

(***************************************************************************)
(* Specification SpecEstimate: one call of estimate_watermark on a folder  *)
(* of at most MaxFiles files                                               *)
(***************************************************************************)
MaxFiles == 3
\* the decoded images: shape (1, 3, 1), 8-bit samples
EstImages == IntArrays(1, 3, 1, {0, 255})

EstInit ==
    /\ e_exists \in BOOLEAN
    /\ \E n \in 0..MaxFiles : e_files \in [1..n -> { ImageFile(a) : a \in EstImages } \cup {Undecodable}]
    /\ e_i = 1 /\ e_images = << >> /\ e_gradx = << >> /\ e_grady = << >>
    /\ e_ret = None /\ e_err = None /\ e_pc = "call"
    /\ NormIdle /\ CropIdle /\ PoisIdle /\ Pois2Idle /\ DetIdle

EstNext == EstCheckFolder \/ EstReadFile \/ EstGradients \/ EstMedian

SpecEstimate == EstInit /\ [][EstNext]_vars

\* the images of the files that decode, in order
Decoded == SelectSeq(e_files, LAMBDA f : f.decodes)
DecodedImages == [g \in DOMAIN Decoded |-> PlotImage(AsFloat32(Decoded[g].image))]
DecodedGradx == [g \in DOMAIN Decoded |-> SobelX(DecodedImages[g])]
DecodedGrady == [g \in DOMAIN Decoded |-> SobelY(DecodedImages[g])]

\* C3: for an existing directory, a file that fails to decode is skipped and is not
\* fatal: the call returns, and the gradient lists and medians it returns are
\* computed from exactly the files that decoded.
C3_DecodeFailureSkipped ==
    (e_exists /\ e_pc \in {"returned", "raised"})
    => /\ e_pc = "returned"
       /\ e_ret = << MedianField(DecodedGradx), MedianField(DecodedGrady),
                     DecodedGradx, DecodedGrady >>

(***************************************************************************)
(* Specification SpecMedian: the median step of estimate_watermark on      *)
(* gradient lists of MedImages images with integer-valued samples          *)
(***************************************************************************)
MaxImages == 4
MedWidths == {1, 2}
GradValues == {-1, 0, 1}

NegField(a) == [i \in DOMAIN a |-> [j \in DOMAIN a[i] |-> [c \in DOMAIN a[i][j] |->
                  Neg(a[i][j][c])]]]

\* The step is applied to given gradient lists: gradx is any list of arrays of shape
\* (1, w, 1), grady is the list of the negated arrays in reverse order.
MedianInit ==
    /\ \E n \in 1..MaxImages, w \in MedWidths :
         /\ \E gs \in [1..n -> IntArrays(1, w, 1, GradValues)] :
               e_gradx = [g \in 1..n |-> AsFloat32(gs[g])]
         /\ e_grady = [g \in 1..n |-> NegField(e_gradx[n + 1 - g])]
    /\ e_images = << >> /\ e_files = << >> /\ e_i = 1
    /\ e_exists = TRUE
    /\ e_ret = None /\ e_err = None /\ e_pc = "median"
    /\ NormIdle /\ CropIdle /\ PoisIdle /\ Pois2Idle /\ DetIdle

MedianNext == EstMedian

SpecMedian == MedianInit /\ [][MedianNext]_vars

\* the noise of every image at one sample when the common gradient there is g
NoiseAt(grads, i, j, c, g) == [k \in DOMAIN grads |-> Sub(grads[k][i][j][c], g)]

\* the median of the noise values ns is zero: with an odd count at most half of them
\* lie on either side of zero; with an even count two of them are opposite and
\* split the others into equal halves below and above
ZeroMedian(ns) ==
    LET n == Len(ns)
    IN IF n % 2 = 1
       THEN /\ 2 * Cardinality({ k \in DOMAIN ns : Lt(ns[k], Zero) }) < n
            /\ 2 * Cardinality({ k \in DOMAIN ns : Lt(Zero, ns[k]) }) < n
       ELSE \E a \in DOMAIN ns, b \in DOMAIN ns :
              /\ a # b /\ ns[a] = Neg(ns[b]) /\ ~Lt(ns[b], ns[a])
              /\ \E lo \in SUBSET (DOMAIN ns \ {a, b}) :
                    /\ 2 * Cardinality(lo) = n - 2
                    /\ \A k \in lo : ~Lt(ns[a], ns[k])
                    /\ \A k \in (DOMAIN ns \ {a, b}) \ lo : ~Lt(ns[k], ns[b])

\* the common gradients the model's samples can have
CommonGradients == { FromInt(g) : g \in GradValues }

\* the estimate equals g wherever the noise around g has zero median
EstimateIsCommon(Wm, grads) ==
    \A i \in DOMAIN Wm : \A j \in DOMAIN Wm[i] : \A c \in DOMAIN Wm[i][j] :
       \A g \in CommonGradients :
          ZeroMedian(NoiseAt(grads, i, j, c, g)) => Wm[i][j][c] = g

\* C4: when every image's gradient is a common gradient G plus noise whose median
\* over the images is zero at every sample, the estimate (Wm_x, Wm_y) equals G at
\* every sample, for both directions.
C4_MedianInvariance ==
    (e_pc = "returned" /\ e_exists /\ Len(e_gradx) > 0)
    => /\ EstimateIsCommon(e_ret[1], e_gradx)
       /\ EstimateIsCommon(e_ret[2], e_grady)

\* the median step has run on an even number of images whose noise around a common
\* gradient has zero median and is not zero
C4_Witness ==
    /\ e_pc = "returned" /\ e_exists /\ Len(e_gradx) = 4
    /\ \E g \in CommonGradients :
          /\ ZeroMedian(NoiseAt(e_gradx, 0, 0, 0, g))
          /\ \A k \in DOMAIN e_gradx : e_gradx[k][0][0][0] # g
          /\ e_ret[1][0][0][0] = g

(***************************************************************************)
(* poisson_reconstruct: the steps                                          *)
(***************************************************************************)
\* From the call to the loop: the laplacian, the checks on the boundary, est with
\* its interior set to independent random floats in [0, 1), the empty loss.
PoissonStart ==
    /\ p_pc = "call"
    /\ LET laplacian == Laplacian(p_gradx, p_grady)
       IN /\ p_laplacian' = laplacian
          /\ IF p_boundary_zero = TRUE \/ BoundaryAccepted(p_boundary_image, laplacian)
             THEN /\ \E rnd \in RandomInteriors(laplacian) :
                        p_est' = AssignInterior(
                                    IF p_boundary_zero = TRUE
                                    THEN [i \in DOMAIN laplacian |->
                                            [j \in DOMAIN laplacian[i] |->
                                               [c \in DOMAIN laplacian[i][j] |-> Zero]]]
                                    ELSE p_boundary_image.data,
                                    rnd)
                  /\ p_pc' = "loop"
                  /\ p_err' = p_err
             ELSE /\ p_pc' = "raised"
                  /\ p_err' = AssertionError
                  /\ p_est' = p_est
    /\ UNCHANGED << poisArgs, p_loss, p_i, p_ret, notPois >>

\* one iteration of `for i in range(num_iters)`
PoissonIterate ==
    /\ p_pc = "loop"
    /\ p_i < p_num_iters
    /\ p_est' = JacobiUpdate(p_est, p_laplacian, p_hh)
    /\ p_loss' = Append(p_loss, SquaredChange(p_est', p_est))
    /\ p_i' = p_i + 1
    /\ UNCHANGED << poisArgs, p_laplacian, p_ret, p_err, p_pc, notPois >>

\* after the loop: est = PlotImage(est); return (est)
PoissonFinish ==
    /\ p_pc = "loop"
    /\ p_i = p_num_iters
    /\ p_est' = PlotImage(p_est)
    /\ p_ret' = << p_est' >>
    /\ p_pc' = "returned"
    /\ UNCHANGED << poisArgs, p_laplacian, p_loss, p_i, p_err, notPois >>

(***************************************************************************)
(* Specification SpecPoisson: one call of poisson_reconstruct              *)
(***************************************************************************)
PoissonMaxH == 3
PoissonMaxW == 4
MaxIters == 2
\* float32(h*h) for the default h = 0.1
HHDefault == [k |-> "num", s |-> 1, m |-> 10737418, e |-> -30]

\* pairs (gradx, grady) of integer arrays of shape (h, w, 1)
PoissonGradients(h, w) ==
    { << [i \in 0..h-1 |-> [j \in 0..w-1 |-> [c \in {0} |-> 0]]],
         [i \in 0..h-1 |-> [j \in 0..w-1 |-> [c \in {0} |-> 0]]] >>,
      << [i \in 0..h-1 |-> [j \in 0..w-1 |-> [c \in {0} |-> j * j]]],
         [i \in 0..h-1 |-> [j \in 0..w-1 |-> [c \in {0} |-> i * j]]] >>,
      << [i \in 0..h-1 |-> [j \in 0..w-1 |-> [c \in {0} |-> IF i = 1 /\ j = 1 THEN 4 ELSE 0]]],
         [i \in 0..h-1 |-> [j \in 0..w-1 |-> [c \in {0} |-> i * i - j]]] >> }

\* boundary_image: None, an array of the gradients' shape, or an array with one row more
BoundaryImages(h, w) ==
    { NoImage,
      SomeImage(AsFloat32([i \in 0..h-1 |-> [j \in 0..w-1 |-> [c \in {0} |-> 1 + i + 2 * j]]])),
      SomeImage(AsFloat32([i \in 0..h |-> [j \in 0..w-1 |-> [c \in {0} |-> 1 + i + 2 * j]]])) }

PoissonInit ==
    /\ \E h \in 3..PoissonMaxH, w \in 3..PoissonMaxW :
         /\ \E g \in PoissonGradients(h, w) :
               p_gradx = AsFloat32(g[1]) /\ p_grady = AsFloat32(g[2])
         /\ p_boundary_image \in BoundaryImages(h, w)
    /\ p_boundary_zero \in BOOLEAN
    /\ p_num_iters \in 0..MaxIters
    /\ p_hh \in { HHDefault, Quarter }
    /\ p_laplacian = << >> /\ p_est = << >> /\ p_loss = << >> /\ p_i = 0
    /\ p_ret = None /\ p_err = None /\ p_pc = "call"
    /\ NormIdle /\ CropIdle /\ EstIdle /\ Pois2Idle /\ DetIdle

PoissonNext == PoissonStart \/ PoissonIterate \/ PoissonFinish

SpecPoisson == PoissonInit /\ [][PoissonNext]_vars

\* C7: the loop runs exactly num_iters times, and the call returns, with the
\* reconstructed field, the loss sequence of one scalar per iteration.
C7_ReturnsLossPerIteration ==
    p_pc = "returned"
    => /\ p_i = p_num_iters
       /\ Len(p_ret) = 2
       /\ p_ret[1] = p_est
       /\ Len(p_ret[2]) = p_num_iters

\* the boundary image is missing or its shape is not the laplacian's
BoundaryRejected ==
    \/ ~p_boundary_image.present
    \/ Shape(p_boundary_image.data) # Shape(Laplacian(p_gradx, p_grady))

\* C8: with boundary_zero disabled, a missing or wrongly shaped boundary_image makes
\* the call fail before any iteration and without returning a field; a boundary_image
\* of the laplacian's shape does not fail the check.
C8_BoundaryChecked ==
    (p_pc \in {"loop", "returned", "raised"} /\ p_boundary_zero = FALSE)
    => IF BoundaryRejected
       THEN /\ p_pc = "raised" /\ p_err = AssertionError
            /\ p_i = 0 /\ p_loss = << >> /\ p_ret = None
       ELSE p_pc # "raised"

\* the call has failed on a boundary image of the wrong shape
C8_Witness ==
    /\ p_pc = "raised" /\ p_boundary_zero = FALSE
    /\ p_boundary_image.present /\ BoundaryRejected

\* the value est has on the boundary before the first iteration
InitialBoundary(i, j, c) ==
    IF p_boundary_zero = TRUE THEN Zero ELSE p_boundary_image.data[i][j][c]

\* the average of the four neighbours of (i, j) in est, less h*h*laplacian/4
NeighbourAverage(est, i, j, c) ==
    Mul(Quarter,
        Sub(Add(Add(Add(est[i - 1][j][c], est[i][j - 1][c]), est[i + 1][j][c]),
                est[i][j + 1][c]),
            Mul(p_hh, p_laplacian[i][j][c])))

BoundaryKept ==
    p_pc = "loop" =>
       \A i \in DOMAIN p_est : \A j \in DOMAIN p_est[i] : \A c \in DOMAIN p_est[i][j] :
          ~IsInterior(p_est, i, j) => p_est[i][j][c] = InitialBoundary(i, j, c)

JacobiStep ==
    (p_pc = "loop" /\ p_i' = p_i + 1) =>
       \A ij \in Interior(p_est) : \A c \in DOMAIN p_est[0][0] :
          p_est'[ij[1]][ij[2]][c] = NeighbourAverage(p_est, ij[1], ij[2], c)

\* C10: in every iteration each interior pixel becomes a function of the previous
\* iterate's four neighbours only, and every boundary pixel of est keeps, in every
\* state of the loop, the value it had before the first iteration.
C10_JacobiFixedBoundary == [](BoundaryKept) /\ [][JacobiStep]_vars

\* two iterations have run on an estimate with two adjacent interior pixels and a
\* caller-supplied boundary
C10_Witness ==
    /\ p_pc = "loop" /\ p_i = 2 /\ p_boundary_zero = FALSE
    /\ Cardinality(Interior(p_est)) >= 2
    /\ \E ij \in Interior(p_est) : p_est[ij[1]][ij[2]][0] # Zero

(***************************************************************************)
(* poisson_reconstruct2: the steps                                         *)
(***************************************************************************)
\* boundarysrc defaults to zeros of gradx's shape
BoundaryOf(boundarysrc, gradx) ==
    IF boundarysrc.present THEN boundarysrc.data ELSE ZerosLike(gradx)

\* From the call to the sine transform: the source term of the gradients, less the
\* Laplacian of the boundary image.
P2RightHandSide ==
    /\ q_pc = "call"
    /\ q_f' = RightHandSide(SourceTerm(q_gradx, q_grady),
                            BoundaryLaplacian(BoundaryOf(q_boundarysrc, q_gradx)))
    /\ q_pc' = "transform"
    /\ UNCHANGED << q_gradx, q_grady, q_boundarysrc, q_ret, notPois2 >>

\* The sine transform, the division by the eigenvalues, the inverse transform, the
\* composition with the boundary and the normalisation: the returned field has the
\* boundary's shape; its samples, which rest on cosines, are not followed.
P2Solve ==
    /\ q_pc = "transform"
    /\ q_ret' = Shape(BoundaryOf(q_boundarysrc, q_gradx))
    /\ q_pc' = "returned"
    /\ UNCHANGED << q_gradx, q_grady, q_boundarysrc, q_f, notPois2 >>

(***************************************************************************)
(* Specification SpecPoisson2: one call of poisson_reconstruct2            *)
(***************************************************************************)
P2MaxDim == 3

\* integer arrays of shape (h, w, 1): zero, a single sample of 1 or 2, and a ramp
P2Fields(h, w) ==
    { [i \in 0..h-1 |-> [j \in 0..w-1 |-> [c \in {0} |-> 0]]],
      [i \in 0..h-1 |-> [j \in 0..w-1 |-> [c \in {0} |-> i * j + j * j]]] }
    \cup { [i \in 0..h-1 |-> [j \in 0..w-1 |-> [c \in {0} |->
              IF i = p[1] /\ j = p[2] THEN 1 + ((p[1] + p[2]) % 2) ELSE 0]]] :
           p \in (0..h-1) \X (0..w-1) }

\* boundarysrc: None, a ramp, or a single nonzero sample off the interior
P2Boundaries(h, w) ==
    { NoImage,
      SomeImage(AsFloat32([i \in 0..h-1 |-> [j \in 0..w-1 |-> [c \in {0} |-> i * i + 2 * j]]])),
      SomeImage(AsFloat32([i \in 0..h-1 |-> [j \in 0..w-1 |-> [c \in {0} |->
                              IF i = 0 /\ j = 1 THEN 3 ELSE 0]]])) }

P2Init ==
    /\ \E h \in 3..P2MaxDim, w \in 3..P2MaxDim :
         /\ \E gx \in P2Fields(h, w), gy \in P2Fields(h, w) :
               q_gradx = AsFloat32(gx) /\ q_grady = AsFloat32(gy)
         /\ q_boundarysrc \in P2Boundaries(h, w)
    /\ q_f = << >> /\ q_ret = None /\ q_pc = "call"
    /\ NormIdle /\ CropIdle /\ EstIdle /\ PoisIdle /\ DetIdle

P2Next == P2RightHandSide \/ P2Solve

SpecPoisson2 == P2Init /\ [][P2Next]_vars

\* the 5-point-stencil Laplacian of the boundary values at (i, j)
Stencil(B, i, j, c) ==
    Add(Add(Add(Add(Mul(MinusFour, B[i][j][c]), B[i][j + 1][c]), B[i][j - 1][c]),
            B[i + 1][j][c]), B[i - 1][j][c])

ForwardDivergence(i, j, c) ==
    Add(Sub(q_gradx[i][j + 1][c], q_gradx[i][j][c]),
        Sub(q_grady[i + 1][j][c], q_grady[i][j][c]))

BackwardDivergence(i, j, c) ==
    Add(Sub(q_gradx[i][j][c], q_gradx[i][j - 1][c]),
        Sub(q_grady[i][j][c], q_grady[i - 1][j][c]))

\* the right-hand side at every interior pixel is the divergence, forward or
\* backward, less the boundary's Laplacian
RhsIs(forward) ==
    q_pc \in {"transform", "returned"} =>
       \A i \in 1..(Cardinality(DOMAIN q_gradx) - 2) :
          \A j \in 1..(Cardinality(DOMAIN q_gradx[0]) - 2) :
             \A c \in DOMAIN q_gradx[0][0] :
                q_f[i - 1][j - 1][c]
                   = Sub(IF forward THEN ForwardDivergence(i, j, c)
                                    ELSE BackwardDivergence(i, j, c),
                         Stencil(BoundaryOf(q_boundarysrc, q_gradx), i, j, c))

\* C9 as stated: the right-hand side handed to the sine transform is, at every
\* interior pixel, the forward-difference divergence
\* (Gx[i,j+1] - Gx[i,j]) + (Gy[i+1,j] - Gy[i,j]) less the 5-point Laplacian of the
\* boundary values (which is zero for the default boundary).
C9_ForwardDivergence == RhsIs(TRUE)

\* C9 as amended: the right-hand side handed to the sine transform is, at every
\* interior pixel, the backward-difference divergence
\* (Gx[i,j] - Gx[i,j-1]) + (Gy[i,j] - Gy[i-1,j]) less the 5-point Laplacian of the
\* boundary values.
C9_BackwardDivergence == RhsIs(FALSE)

\* the right-hand side has been formed from a nonzero boundary and from gradients
\* whose forward and backward divergences differ at the centre
C9_Witness ==
    /\ q_pc = "transform" /\ q_boundarysrc.present
    /\ Stencil(q_boundarysrc.data, 1, 1, 0) # Zero
    /\ ForwardDivergence(1, 1, 0) # BackwardDivergence(1, 1, 0)
    /\ BackwardDivergence(1, 1, 0) # Zero

(***************************************************************************)
(* Specification SpecDetect: one call of watermark_detector on a target    *)
(* whose edge map is the watermark's gradient magnitude placed at an       *)
(* offset, zero elsewhere                                                  *)
(***************************************************************************)
MaxKernelDim == 3
MaxKernelArea == 4
MaxTargetDim == 4
\* (gx, gy) of one kernel sample: magnitudes 0, 1, 2
KernelGradients == { << 0, 0 >>, << 0, 1 >>, << 2, 0 >> }

\* the (H, W) edge map holding the integer pattern at offset (r0, c0)
Place(pattern, H, W, r0, c0) ==
    [i \in 0..H-1 |-> [j \in 0..W-1 |->
        IF /\ r0 <= i /\ i < r0 + Cardinality(DOMAIN pattern)
           /\ c0 <= j /\ j < c0 + Cardinality(DOMAIN pattern[0])
        THEN pattern[i - r0][j - c0] ELSE 0]]

DetInit ==
    /\ \E kh \in 1..MaxKernelDim, kw \in 1..MaxKernelDim :
         /\ kh * kw <= MaxKernelArea
         /\ \E g \in [0..kh-1 -> [0..kw-1 -> [{0} -> KernelGradients]]] :
              /\ d_gx = AsFloat32([i \in 0..kh-1 |-> [j \in 0..kw-1 |-> [c \in {0} |-> g[i][j][c][1]]]])
              /\ d_gy = AsFloat32([i \in 0..kh-1 |-> [j \in 0..kw-1 |-> [c \in {0} |-> g[i][j][c][2]]]])
              /\ \E H \in kh..MaxTargetDim, W \in kw..MaxTargetDim :
                   \E r0 \in 0..(H - kh), c0 \in 0..(W - kw) :
                      d_edgemap = Place([i \in 0..kh-1 |-> [j \in 0..kw-1 |->
                                            g[i][j][0][1] + g[i][j][0][2]]], H, W, r0, c0)
    /\ d_Wm = << >> /\ d_chamfer_dist = << >> /\ d_ret = None /\ d_pc = "call"
    /\ NormIdle /\ CropIdle /\ EstIdle /\ PoisIdle /\ Pois2Idle

\* Wm = the channel average of the gradient magnitude
DetKernel ==
    /\ d_pc = "call"
    /\ d_Wm' = KernelOf(d_gx, d_gy)
    /\ d_pc' = "filter"
    /\ UNCHANGED << d_edgemap, d_gx, d_gy, d_chamfer_dist, d_ret, notDet >>

\* the edge map (cv2.Canny of the target, here given) filtered with Wm
DetFilter ==
    /\ d_pc = "filter"
    /\ d_chamfer_dist' = Filter2D(d_edgemap, d_Wm)
    /\ d_pc' = "locate"
    /\ UNCHANGED << d_edgemap, d_gx, d_gy, d_Wm, d_ret, notDet >>

\* the maximum response, moved back by half the kernel, and the kernel's shape
DetLocate ==
    /\ d_pc = "locate"
    /\ d_ret' = Locate(d_chamfer_dist, d_Wm)
    /\ d_pc' = "returned"
    /\ UNCHANGED << d_edgemap, d_gx, d_gy, d_Wm, d_chamfer_dist, notDet >>

DetNext == DetKernel \/ DetFilter \/ DetLocate

SpecDetect == DetInit /\ [][DetNext]_vars

\* the watermark's gradient magnitude as integers
Pattern == LET Wm == KernelOf(d_gx, d_gy)
           IN [i \in DOMAIN Wm |-> [j \in DOMAIN Wm[i] |-> ToInt(Wm[i][j])]]

\* the offsets at which the edge map is the pattern placed there, zero elsewhere
Offsets ==
    { o \in (DOMAIN d_edgemap) \X (DOMAIN d_edgemap[0]) :
        /\ o[1] + Cardinality(DOMAIN d_gx) <= Cardinality(DOMAIN d_edgemap)
        /\ o[2] + Cardinality(DOMAIN d_gx[0]) <= Cardinality(DOMAIN d_edgemap[0])
        /\ d_edgemap = Place(Pattern, Cardinality(DOMAIN d_edgemap),
                             Cardinality(DOMAIN d_edgemap[0]), o[1], o[2]) }

\* the pattern has a nonzero sample in its first and last row and column, so that
\* it is placed at one offset only
FullExtent ==
    /\ \E j \in DOMAIN Pattern[0] : Pattern[0][j] # 0
    /\ \E j \in DOMAIN Pattern[0] : Pattern[Cardinality(DOMAIN Pattern) - 1][j] # 0
    /\ \E i \in DOMAIN Pattern : Pattern[i][0] # 0
    /\ \E i \in DOMAIN Pattern : Pattern[i][Cardinality(DOMAIN Pattern[0]) - 1] # 0

\* C6: when the edge map is the watermark's gradient magnitude placed with its
\* top-left corner at an offset and zero elsewhere, watermark_detector reports that
\* offset as the top-left coordinate and the kernel's (height, width) as the size.
C6_LocatorExact ==
    (d_pc = "returned" /\ FullExtent)
    => \A o \in Offsets :
          d_ret = << o, << Cardinality(DOMAIN d_gx), Cardinality(DOMAIN d_gx[0]) >> >>

\* channel c of the argument is not constant
NonConstant(im, c) == Cardinality(ChannelValues(im, c)) > 1

\* C5: for every finite input with no constant channel, the output of PlotImage
\* lies in [0,1] in every channel, and in every channel some pixel equals 0 and
\* some pixel equals 1.
C5_RangeAttained ==
    (n_pc = "returned" /\ \A c \in DOMAIN n_image[0][0] : NonConstant(n_image, c))
    => \A c \in DOMAIN n_image[0][0] :
         /\ \A v \in ChannelValues(n_result, c) : Ge(v, Zero) /\ Ge(One, v)
         /\ \E v \in ChannelValues(n_result, c) : EqF(v, Zero)
         /\ \E v \in ChannelValues(n_result, c) : EqF(v, One)
====
